---- MODULE Spec2Model ----
(***************************************************************************)
(* A model of KVStorageArea (src/src/KVStorageArea.ts) and of              *)
(* performADatabaseOperation (src/unnamed/part_000) on a JavaScript event  *)
(* loop: user code runs in tasks and microtasks, promise reactions run as  *)
(* microtasks in FIFO order, engine events (open, request, transaction,    *)
(* deleteDatabase) run as tasks when the microtask queue is empty.         *)
(***************************************************************************)
EXTENDS Integers, Sequences, FiniteSets, TLC

\* ---------------------------------------------------------------- bounds
MaxOps == 2
MaxClears == 1
MaxDefers == 1
MaxFaults == 1

\* ------------------------------------------------------------ data values
Null == 0
Undefined == "undefined"
\* the IDBDatabase a database promise is fulfilled with
Database == "database"
ValidKeys == {"k"}
InvalidKeys == {"bad"}
Keys == ValidKeys \cup InvalidKeys
StoredValues == {"v"}
Unserializable == {"fn"}
Values == StoredValues \cup Unserializable \cup {Undefined}

VARIABLES
  DatabasePromise,  \* [[DatabasePromise]]: Null or the index of a promise
  promises,         \* every database promise ever created, by index
  microtasks,       \* the microtask queue (promise reaction jobs, user jobs)
  turn,             \* "user": user code is on the stack; "loop": the event loop
  ops,              \* every get/set/delete call made, by index
  clears,           \* every clear call made, by index
  store,            \* the engine's table "store" of the database
  defers,           \* number of microtasks user code has queued
  BackingStoreObject  \* this.#BackingStoreObject: <<>> while the field holds
                    \* no object, <<object>> once backingStore has made one

vars == <<DatabasePromise, promises, microtasks, turn, ops, clears, store,
          defers, BackingStoreObject>>

\* The key validity predicate used by get and delete.
allowedAsAKey(key) == key \in ValidKeys

EmptyStore == [k \in ValidKeys |-> Undefined]

OpJob(o) == [kind |-> "op", id |-> o]
ClearJob(c) == [kind |-> "clear", id |-> c]
UserJob == [kind |-> "user", id |-> 0]

\* promise.then / promise.finally: a reaction on a pending promise is kept
\* with the promise; on a settled promise it is queued as a microtask at once.
ReactPromises(ps, p, job) ==
  IF ps[p].state = "pending"
    THEN [ps EXCEPT ![p].reactions = Append(@, job)]
    ELSE ps

ReactMicrotasks(ps, mq, p, job) ==
  IF ps[p].state = "pending" THEN mq ELSE Append(mq, job)

Init ==
  /\ DatabasePromise = Null
  /\ promises = <<>>
  /\ microtasks = <<>>
  /\ turn = "loop"
  /\ ops = <<>>
  /\ clears = <<>>
  /\ store = EmptyStore
  /\ defers = 0
  /\ BackingStoreObject = <<>>

\* ------------------------------------------------------------ call records
NewOp(kind, key, value, p, st, err) ==
  [kind |-> kind, key |-> key, value |-> value, promise |-> p,
   st |-> st, err |-> err, val |-> Undefined, req |-> "none", txn |-> "none"]

NewClear(observed, inFlight, destroy) ==
  [observed |-> observed, pendingAtCall |-> inFlight, destroy |-> destroy,
   st |-> "pending", err |-> "none", val |-> Undefined]

\* ------------------------------------------- the database handle cache
\* initialize the database promise: a new pending promise for one engine open.
initializeTheDatabasePromise(ps) ==
  Append(ps, [state |-> "pending", reactions |-> <<>>])

\* (mutant) the null test is dropped: every operation initializes the promise
DatabasePromiseIsNullAlways(dp) == TRUE

\* step 2 of performing a database operation: is [[DatabasePromise]] null?
DatabasePromiseIsNull(dp) == dp = Null

\* perform a database operation, up to the registration of its reaction
performADatabaseOperation(kind, key, value) ==
  LET o == Len(ops) + 1
      init == DatabasePromiseIsNull(DatabasePromise)
      ps1 == IF init THEN initializeTheDatabasePromise(promises) ELSE promises
      p == IF init THEN Len(ps1) ELSE DatabasePromise
  IN  /\ DatabasePromise' = p
      /\ promises' = ReactPromises(ps1, p, OpJob(o))
      /\ microtasks' = ReactMicrotasks(ps1, microtasks, p, OpJob(o))
      /\ ops' = Append(ops, NewOp(kind, key, value, p, "waiting", "none"))
      /\ UNCHANGED <<turn, clears, store, defers, BackingStoreObject>>

\* return a promise rejected with a "DataError" DOMException
RejectWithDataError(kind, key, value) ==
  /\ ops' = Append(ops, NewOp(kind, key, value, Null, "rejected", "DataError"))
  /\ UNCHANGED <<DatabasePromise, promises, microtasks, turn, clears, store, defers,
               BackingStoreObject>>

\* ------------------------------------------------------- the public calls
set(key, value) ==
  /\ turn = "user"
  /\ performADatabaseOperation("set", key, value)

get(key) ==
  /\ turn = "user"
  /\ IF ~allowedAsAKey(key)
       THEN RejectWithDataError("get", key, Undefined)
       ELSE performADatabaseOperation("get", key, Undefined)

delete(key) ==
  /\ turn = "user"
  /\ IF ~allowedAsAKey(key)
       THEN RejectWithDataError("delete", key, Undefined)
       ELSE performADatabaseOperation("delete", key, Undefined)

\* (mutant) clear does not react to the cached promise: it resets the cache
\* and deletes the database at once
clearWithoutWaiting ==
  /\ turn = "user"
  /\ LET p == DatabasePromise
     IN  clears' = Append(clears,
            NewClear(p, p # Null /\ promises[p].state = "pending", "pending"))
  /\ DatabasePromise' = Null
  /\ UNCHANGED <<promises, microtasks, turn, ops, store, defers, BackingStoreObject>>

clear ==
  /\ turn = "user"
  /\ LET c == Len(clears) + 1
         p == DatabasePromise
     IN  IF p # Null
           THEN /\ clears' = Append(clears,
                       NewClear(p, promises[p].state = "pending", "none"))
                /\ promises' = ReactPromises(promises, p, ClearJob(c))
                /\ microtasks' = ReactMicrotasks(promises, microtasks, p, ClearJob(c))
           ELSE /\ clears' = Append(clears, NewClear(Null, FALSE, "pending"))
                /\ UNCHANGED <<promises, microtasks>>
  /\ UNCHANGED <<DatabasePromise, turn, ops, store, defers, BackingStoreObject>>

\* ---------------------------------------------------------- backingStore
\* The name the constructor stores: "kv-storage:" and the name of the area
\* (the default area is constructed with "default").
AreaName == "default"
DatabaseName == "kv-storage:" \o AreaName

\* this.#DatabaseName, the field the getter reads.  The constructor stores
\* the name in the WeakMap DatabaseName; no code assigns the private field.
PrivateDatabaseName == Undefined

\* get backingStore(): make the frozen object on the first access, return
\* the field on every access.
backingStore ==
  /\ turn = "user"
  /\ BackingStoreObject' =
       IF BackingStoreObject = <<>>
         THEN <<[database |-> PrivateDatabaseName, store |-> "store",
                 version |-> 1]>>
         ELSE BackingStoreObject
  /\ UNCHANGED <<DatabasePromise, promises, microtasks, turn, ops, clears,
                 store, defers>>

\* ------------------------------------------------------ promise reactions
\* What the engine request issued by the steps of an operation does when it
\* is made: put clones the value and then checks the key, delete and get
\* check the key; a failed check throws.
StepsThrow(op) ==
  CASE op.kind = "set" /\ op.value # Undefined /\ op.value \in Unserializable
         -> "DataCloneError"
    [] ~allowedAsAKey(op.key) -> "DataError"
    [] OTHER -> "none"

\* (mutant) the handler is registered for fulfillment and for rejection
opReactionOnSettle(o) ==
  LET op == ops[o]
      thrown == StepsThrow(op)
  IN  /\ ops' =
           IF thrown # "none"
             THEN [ops EXCEPT ![o].txn = "active", ![o].st = "rejected",
                              ![o].err = thrown]
             ELSE [ops EXCEPT ![o].txn = "active", ![o].req = "pending",
                              ![o].st = "pending"]
      /\ UNCHANGED <<DatabasePromise, promises, clears, store, defers, turn,
               BackingStoreObject>>

\* the fulfillment handler of performADatabaseOperation, for operation o
opReaction(o) ==
  LET op == ops[o]
      thrown == StepsThrow(op)
  IN  /\ ops' =
           IF promises[op.promise].state = "rejected"
             THEN [ops EXCEPT ![o].st = "rejected", ![o].err = "OpenFailure"]
             ELSE IF thrown # "none"
               THEN [ops EXCEPT ![o].txn = "active", ![o].st = "rejected",
                                ![o].err = thrown]
               ELSE [ops EXCEPT ![o].txn = "active", ![o].req = "pending",
                                ![o].st = "pending"]
      /\ UNCHANGED <<DatabasePromise, promises, clears, store, defers, turn,
               BackingStoreObject>>

\* the finally handler of clear, for clear call c
\* (mutant) the handler does not return the promise of deleting the database:
\* the promise of clear settles as the observed promise did, at once.
clearReactionWithoutReturn(c) ==
  /\ DatabasePromise' = Null
  /\ clears' = [clears EXCEPT
       ![c].destroy = "pending",
       ![c].st = IF promises[clears[c].observed].state = "fulfilled"
                   THEN "fulfilled" ELSE "rejected",
       ![c].val = Database]
  /\ UNCHANGED <<promises, ops, store, defers, turn, BackingStoreObject>>

clearReaction(c) ==
  /\ DatabasePromise' = Null
  /\ clears' = [clears EXCEPT ![c].destroy = "pending"]
  /\ UNCHANGED <<promises, ops, store, defers, turn, BackingStoreObject>>

RunMicrotask ==
  /\ turn = "loop"
  /\ microtasks # <<>>
  /\ microtasks' = Tail(microtasks)
  /\ LET job == Head(microtasks)
     IN  CASE job.kind = "op" -> opReaction(job.id)
           [] job.kind = "clear" -> clearReaction(job.id)
           [] OTHER -> /\ turn' = "user"
                       /\ UNCHANGED <<DatabasePromise, promises, ops, clears,
                                      store, defers, BackingStoreObject>>

\* ------------------------------------------------------------- user code
UserTask ==
  /\ turn = "loop"
  /\ microtasks = <<>>
  /\ turn' = "user"
  /\ UNCHANGED <<DatabasePromise, promises, microtasks, ops, clears, store, defers,
               BackingStoreObject>>

UserDefer ==
  /\ turn = "user"
  /\ defers' = defers + 1
  /\ microtasks' = Append(microtasks, UserJob)
  /\ UNCHANGED <<DatabasePromise, promises, turn, ops, clears, store,
               BackingStoreObject>>

UserReturn ==
  /\ turn = "user"
  /\ turn' = "loop"
  /\ UNCHANGED <<DatabasePromise, promises, microtasks, ops, clears, store, defers,
               BackingStoreObject>>

\* ----------------------------------------------------------- engine events
EngineTask == turn = "loop" /\ microtasks = <<>>

OpenSuccess(p) ==
  /\ EngineTask
  /\ promises[p].state = "pending"
  /\ promises' = [promises EXCEPT ![p] = [state |-> "fulfilled", reactions |-> <<>>]]
  /\ microtasks' = promises[p].reactions
  /\ UNCHANGED <<DatabasePromise, turn, ops, clears, store, defers,
               BackingStoreObject>>

\* (mutant) a failed open stays cached
OpenFailureKeepsCache(p) ==
  /\ EngineTask
  /\ promises[p].state = "pending"
  /\ promises' = [promises EXCEPT ![p] = [state |-> "rejected", reactions |-> <<>>]]
  /\ microtasks' = promises[p].reactions
  /\ UNCHANGED <<DatabasePromise, turn, ops, clears, store, defers,
               BackingStoreObject>>

OpenFailure(p) ==
  /\ EngineTask
  /\ promises[p].state = "pending"
  /\ promises' = [promises EXCEPT ![p] = [state |-> "rejected", reactions |-> <<>>]]
  /\ microtasks' = promises[p].reactions
  /\ DatabasePromise' = IF DatabasePromise = p THEN Null ELSE DatabasePromise
  /\ UNCHANGED <<turn, ops, clears, store, defers, BackingStoreObject>>

\* The request of a get ends (success or error) before its transaction does;
\* the code listens to the request of a get and to the transaction of a write,
\* so the request of a write is folded into the end of its transaction.
RequestSuccess(o) ==
  /\ EngineTask
  /\ ops[o].kind = "get"
  /\ ops[o].req = "pending"
  /\ ops' = [ops EXCEPT ![o].req = "success", ![o].st = "fulfilled",
                        ![o].val = store[ops[o].key]]
  /\ UNCHANGED <<DatabasePromise, promises, microtasks, turn, clears, store, defers,
               BackingStoreObject>>

RequestError(o) ==
  /\ EngineTask
  /\ ops[o].kind = "get"
  /\ ops[o].req = "pending"
  /\ ops' = [ops EXCEPT ![o].req = "error", ![o].st = "rejected",
                        ![o].err = "RequestError"]
  /\ UNCHANGED <<DatabasePromise, promises, microtasks, turn, clears, store, defers,
               BackingStoreObject>>

\* (mutant) the test of set is inverted: a value is deleted, undefined is put
WrittenInverted(op) == Undefined

\* the value the table holds for the key of a write once it has committed
Written(op) == IF op.kind = "set" THEN op.value ELSE Undefined

IsWrite(op) == op.kind \in {"set", "delete"}

\* (mutant) set and delete do not listen for abort: an aborted transaction
\* leaves the promise of the call unsettled
TransactionEndAbortUnheard(o, ev) ==
  /\ EngineTask
  /\ ops[o].txn = "active"
  /\ IsWrite(ops[o]) \/ ops[o].req # "pending"
  /\ ev = "complete" => ops[o].req # "error"
  /\ ops' =
       IF IsWrite(ops[o]) /\ ops[o].st = "pending" /\ ev # "abort"
         THEN IF ev = "complete"
                THEN [ops EXCEPT ![o].txn = ev, ![o].req = "success",
                                 ![o].st = "fulfilled"]
                ELSE [ops EXCEPT ![o].txn = ev, ![o].req = "error",
                                 ![o].st = "rejected", ![o].err = "TransactionError"]
         ELSE [ops EXCEPT ![o].txn = ev]
  /\ store' =
       IF ev = "complete" /\ IsWrite(ops[o]) /\ ops[o].req = "pending"
         THEN [store EXCEPT ![ops[o].key] = Written(ops[o])]
         ELSE store
  /\ UNCHANGED <<DatabasePromise, promises, microtasks, turn, clears, defers,
               BackingStoreObject>>

TransactionEnd(o, ev) ==
  /\ EngineTask
  /\ ops[o].txn = "active"
  /\ IsWrite(ops[o]) \/ ops[o].req # "pending"
  /\ ev = "complete" => ops[o].req # "error"
  /\ ops' =
       IF IsWrite(ops[o]) /\ ops[o].st = "pending"
         THEN IF ev = "complete"
                THEN [ops EXCEPT ![o].txn = ev, ![o].req = "success",
                                 ![o].st = "fulfilled"]
                ELSE [ops EXCEPT ![o].txn = ev, ![o].req = "error",
                                 ![o].st = "rejected", ![o].err = "TransactionError"]
         ELSE [ops EXCEPT ![o].txn = ev]
  /\ store' =
       IF ev = "complete" /\ IsWrite(ops[o]) /\ ops[o].req = "pending"
         THEN [store EXCEPT ![ops[o].key] = Written(ops[o])]
         ELSE store
  /\ UNCHANGED <<DatabasePromise, promises, microtasks, turn, clears, defers,
               BackingStoreObject>>

\* The promise clear returns once its deleteDatabase request has ended.
\* Without a cached promise it is the promise of deleting the database;
\* with one it is promise.finally(handler): it takes the handler's
\* rejection, and otherwise the settlement of the promise it was called on.
ClearSettled(cl, ok) ==
  IF ~ok
    THEN [cl EXCEPT !.destroy = "failed", !.st = "rejected", !.err = "DeleteFailure"]
    ELSE IF cl.observed = Null
      THEN [cl EXCEPT !.destroy = "done", !.st = "fulfilled", !.val = Undefined]
      ELSE IF promises[cl.observed].state = "fulfilled"
        THEN [cl EXCEPT !.destroy = "done", !.st = "fulfilled", !.val = Database]
        ELSE [cl EXCEPT !.destroy = "done", !.st = "rejected", !.err = "OpenFailure"]

DeleteSuccess(c) ==
  /\ EngineTask
  /\ clears[c].destroy = "pending"
  /\ clears' = [clears EXCEPT ![c] = ClearSettled(clears[c], TRUE)]
  /\ store' = EmptyStore
  /\ UNCHANGED <<DatabasePromise, promises, microtasks, turn, ops, defers,
               BackingStoreObject>>

DeleteFailure(c) ==
  /\ EngineTask
  /\ clears[c].destroy = "pending"
  /\ clears' = [clears EXCEPT ![c] = ClearSettled(clears[c], FALSE)]
  /\ UNCHANGED <<DatabasePromise, promises, microtasks, turn, ops, store, defers,
               BackingStoreObject>>

\* ------------------------------------------------ bounded exploration
\* Engine failures so far: failed opens, failed transactions (a failed
\* request ends in a failed transaction) and failed deleteDatabase requests.
Faults ==
  Cardinality({p \in DOMAIN promises : promises[p].state = "rejected"})
  + Cardinality({o \in DOMAIN ops :
        ops[o].req = "error" \/ ops[o].txn \in {"error", "abort"}})
  + Cardinality({c \in DOMAIN clears : clears[c].destroy = "failed"})

MayFail == Faults < MaxFaults
MayCall == Len(ops) < MaxOps
MayClear == Len(clears) < MaxClears

\* Spec: the calls race with each other, with the opens and with the
\* deleteDatabase requests; every key is valid and every transaction commits.
Next ==
  \/ MayCall /\ set("k", "v")
  \/ MayCall /\ get("k")
  \/ MayCall /\ delete("k")
  \/ MayClear /\ clear
  \/ (MayCall \/ MayClear) /\ UserTask
  \/ defers < MaxDefers /\ UserDefer
  \/ UserReturn
  \/ RunMicrotask
  \/ \E p \in DOMAIN promises : OpenSuccess(p)
  \/ MayFail /\ \E p \in DOMAIN promises : OpenFailure(p)
  \/ \E o \in DOMAIN ops : RequestSuccess(o)
  \/ \E o \in DOMAIN ops : TransactionEnd(o, "complete")
  \/ \E c \in DOMAIN clears : DeleteSuccess(c)
  \/ MayFail /\ \E c \in DOMAIN clears : DeleteFailure(c)

Spec == Init /\ [][Next]_vars

\* RaceSpec: the same steps with more calls, enough for two clear calls on
\* one promise with an operation between their handlers and one after.
RaceMaxOps == 3
RaceMaxClears == 2
RaceMayCall == Len(ops) < RaceMaxOps
RaceMayClear == Len(clears) < RaceMaxClears

RaceNext ==
  \/ RaceMayCall /\ set("k", "v")
  \/ RaceMayCall /\ get("k")
  \/ RaceMayCall /\ delete("k")
  \/ RaceMayClear /\ clear
  \/ (RaceMayCall \/ RaceMayClear) /\ UserTask
  \/ defers < MaxDefers /\ UserDefer
  \/ UserReturn
  \/ RunMicrotask
  \/ \E p \in DOMAIN promises : OpenSuccess(p)
  \/ MayFail /\ \E p \in DOMAIN promises : OpenFailure(p)
  \/ \E o \in DOMAIN ops : RequestSuccess(o)
  \/ \E o \in DOMAIN ops : TransactionEnd(o, "complete")
  \/ \E c \in DOMAIN clears : DeleteSuccess(c)
  \/ MayFail /\ \E c \in DOMAIN clears : DeleteFailure(c)

RaceSpec == Init /\ [][RaceNext]_vars

\* DataSpec: fewer calls, with every kind of argument (valid and invalid
\* keys, stored, unserializable and undefined values) and with requests and
\* transactions that may fail.
DataMaxOps == 2
DataMaxClears == 1
SetArgs == Keys \X Values
DataMayCall == Len(ops) < DataMaxOps
DataMayClear == Len(clears) < DataMaxClears

DataNext ==
  \/ DataMayCall /\ \E a \in SetArgs : set(a[1], a[2])
  \/ DataMayCall /\ \E key \in Keys : get(key)
  \/ DataMayCall /\ \E key \in Keys : delete(key)
  \/ DataMayClear /\ clear
  \/ (DataMayCall \/ DataMayClear) /\ UserTask
  \/ UserReturn
  \/ RunMicrotask
  \/ \E p \in DOMAIN promises : OpenSuccess(p)
  \/ MayFail /\ \E p \in DOMAIN promises : OpenFailure(p)
  \/ \E o \in DOMAIN ops : RequestSuccess(o)
  \/ MayFail /\ \E o \in DOMAIN ops : RequestError(o)
  \/ \E o \in DOMAIN ops : TransactionEnd(o, "complete")
  \/ \E o \in DOMAIN ops, ev \in {"error", "abort"} :
        (MayFail \/ ops[o].req = "error") /\ TransactionEnd(o, ev)
  \/ \E c \in DOMAIN clears : DeleteSuccess(c)
  \/ MayFail /\ \E c \in DOMAIN clears : DeleteFailure(c)

DataSpec == Init /\ [][DataNext]_vars

\* LiveSpec: DataSpec with the scheduling the claim on termination assumes.
\* The event loop runs every queued microtask and lets user code return
\* (run to completion); the engine settles every open and every
\* deleteDatabase request and delivers a terminal event for every request and
\* every transaction, even though user tasks keep being interleaved (strong
\* fairness: an engine event is enabled only between tasks).
OpenEnds(p) ==
  p \in DOMAIN promises /\ (OpenSuccess(p) \/ (MayFail /\ OpenFailure(p)))
RequestEnds(o) ==
  o \in DOMAIN ops /\ (RequestSuccess(o) \/ (MayFail /\ RequestError(o)))
TransactionEnds(o) ==
  /\ o \in DOMAIN ops
  /\ \/ TransactionEnd(o, "complete")
     \/ \E ev \in {"error", "abort"} :
          (MayFail \/ ops[o].req = "error") /\ TransactionEnd(o, ev)
DeleteEnds(c) ==
  c \in DOMAIN clears /\ (DeleteSuccess(c) \/ (MayFail /\ DeleteFailure(c)))

Fairness ==
  /\ WF_vars(RunMicrotask)
  /\ WF_vars(UserReturn)
  /\ \A p \in 1..DataMaxOps : SF_vars(OpenEnds(p))
  /\ \A o \in 1..DataMaxOps : SF_vars(RequestEnds(o))
  /\ \A o \in 1..DataMaxOps : SF_vars(TransactionEnds(o))
  /\ \A c \in 1..DataMaxClears : SF_vars(DeleteEnds(c))

LiveSpec == DataSpec /\ Fairness

\* DescriptorSpec: the steps of Spec, and user code that reads backingStore
\* at any point between the calls.
DescriptorNext ==
  \/ MayCall /\ set("k", "v")
  \/ MayCall /\ get("k")
  \/ MayCall /\ delete("k")
  \/ MayClear /\ clear
  \/ backingStore
  \/ UserTask
  \/ UserReturn
  \/ RunMicrotask
  \/ \E p \in DOMAIN promises : OpenSuccess(p)
  \/ MayFail /\ \E p \in DOMAIN promises : OpenFailure(p)
  \/ \E o \in DOMAIN ops : RequestSuccess(o)
  \/ \E o \in DOMAIN ops : TransactionEnd(o, "complete")
  \/ \E c \in DOMAIN clears : DeleteSuccess(c)
  \/ MayFail /\ \E c \in DOMAIN clears : DeleteFailure(c)

DescriptorSpec == Init /\ [][DescriptorNext]_vars

\* SerialSpec: a program that awaits every call before it makes the next one
\* and calls clear once, after its first ClearAfter operations:
\*   await op; await clear(); await op; await op; await op
\* with each op one of set("k", "v"), get("k"), delete("k").
SerialMaxOps == 4
ClearAfter == 1
AllSettled ==
  /\ \A o \in DOMAIN ops : ops[o].st \notin {"waiting", "pending"}
  /\ \A c \in DOMAIN clears : clears[c].st # "pending"
SerialMayCall ==
  /\ AllSettled
  /\ Len(ops) < SerialMaxOps
  /\ Len(ops) = ClearAfter => Len(clears) = 1
SerialMayClear == AllSettled /\ Len(ops) = ClearAfter /\ Len(clears) = 0

SerialNext ==
  \/ SerialMayCall /\ set("k", "v")
  \/ SerialMayCall /\ get("k")
  \/ SerialMayCall /\ delete("k")
  \/ SerialMayClear /\ clear
  \/ (SerialMayCall \/ SerialMayClear) /\ UserTask
  \/ UserReturn
  \/ RunMicrotask
  \/ \E p \in DOMAIN promises : OpenSuccess(p)
  \/ MayFail /\ \E p \in DOMAIN promises : OpenFailure(p)
  \/ \E o \in DOMAIN ops : RequestSuccess(o)
  \/ \E o \in DOMAIN ops : TransactionEnd(o, "complete")
  \/ \E c \in DOMAIN clears : DeleteSuccess(c)
  \/ MayFail /\ \E c \in DOMAIN clears : DeleteFailure(c)

SerialSpec == Init /\ [][SerialNext]_vars

\* ------------------------------------------------------------- properties
OpensInFlight == {p \in DOMAIN promises : promises[p].state = "pending"}
Queued(job) == \E i \in DOMAIN microtasks : microtasks[i] = job
\* the operation or clear call made by this step, if any
NewOpMade == Len(ops') = Len(ops) + 1
NewClearMade == Len(clears') = Len(clears) + 1
Performed(o) == ops[o].promise # Null

\* C1: in every reachable state at most one engine open attempt is in
\* flight for the storage area.
AtMostOneOpenInFlight == Cardinality(OpensInFlight) <= 1

\* C2: a clear called while the open it observes is in flight neither resets
\* the cache nor issues its deleteDatabase request before that open has
\* settled: the call itself leaves the cache alone, and the request (issued
\* by the handler that resets the cache) exists only once the open settled.
ClearWaitsForPendingOpen ==
  /\ [](\A c \in DOMAIN clears :
          clears[c].pendingAtCall /\ clears[c].destroy # "none"
            => promises[clears[c].observed].state # "pending")
  /\ [][NewClearMade /\ clears'[Len(clears')].pendingAtCall
          => /\ DatabasePromise' = DatabasePromise
             /\ clears'[Len(clears')].destroy = "none"]_vars

\* C2 witness: a clear called during an open that then failed has issued
\* its deleteDatabase request.
ClearWaitedForFailedOpen ==
  \E c \in DOMAIN clears :
    /\ clears[c].pendingAtCall
    /\ clears[c].destroy = "pending"
    /\ promises[clears[c].observed].state = "rejected"

\* C3: no operation begins a transaction on the handle of a promise for
\* which some clear has already issued its deleteDatabase request.
NoTransactionOnTornDownHandle ==
  [][\A o \in DOMAIN ops :
       ops[o].txn = "none" /\ ops'[o].txn = "active"
         => ~ \E c \in DOMAIN clears :
                /\ clears[c].observed = ops[o].promise
                /\ clears[c].destroy # "none"]_vars

\* C4: at the moment a clear fulfils, the handle cache is absent (so the
\* next operation starts a fresh open).
CacheAbsentWhenClearFulfils ==
  [][\A c \in DOMAIN clears :
       clears[c].st = "pending" /\ clears'[c].st = "fulfilled"
         => DatabasePromise' = Null]_vars

\* C5: with no clear and no failed open, the engine's open has been called
\* exactly once as soon as some operation was performed (never twice), and
\* every performed operation uses that one promise.
SingleOpenWithoutClear ==
  (Len(clears) = 0 /\ \A p \in DOMAIN promises : promises[p].state # "rejected")
    => /\ Len(promises) = IF \E o \in DOMAIN ops : Performed(o) THEN 1 ELSE 0
       /\ \A o \in DOMAIN ops : Performed(o) => ops[o].promise = 1

\* C5 witness: no clear, no failure; one operation has used the handle and
\* committed, and another, issued after the open resolved, waits on the same
\* promise, the only one there is.
OperationsShareOneOpen ==
  /\ Len(clears) = 0
  /\ Len(promises) = 1
  /\ promises[1].state = "fulfilled"
  /\ \E o1, o2 \in DOMAIN ops :
       /\ o1 < o2
       /\ ops[o1].txn = "complete"
       /\ ops[o2].st = "waiting"
       /\ ops[o2].promise = 1

\* C6: a get, set or delete with an invalid key fails with DataError and
\* does nothing else: no open, no transaction, no request.
InvalidKeyFailsWithoutEffect ==
  \A o \in DOMAIN ops :
    ~allowedAsAKey(ops[o].key)
      => /\ ops[o].st = "rejected"
         /\ ops[o].err = "DataError"
         /\ ops[o].promise = Null
         /\ ops[o].txn = "none"
         /\ ops[o].req = "none"

\* C7: a clear that observed a cached promise is fulfilled when its
\* deleteDatabase request succeeds and rejected when it fails, whatever the
\* outcome of the observed open.
ClearOutcomeIsDestroyOutcome ==
  \A c \in DOMAIN clears :
    clears[c].observed # Null
      => /\ clears[c].destroy = "done" => clears[c].st = "fulfilled"
         /\ clears[c].destroy = "failed" => clears[c].st = "rejected"

\* C8: a clear that fulfils, fulfils with undefined (never with the
\* database handle of the open it waited for).
ClearFulfilsWithUndefined ==
  \A c \in DOMAIN clears :
    clears[c].st = "fulfilled" => clears[c].val = Undefined

\* C9: a failed open does not stay cached, and an operation performed when
\* the latest open has failed starts a new open and waits on it.
FailedOpenIsRetried ==
  /\ [](DatabasePromise # Null => promises[DatabasePromise].state # "rejected")
  /\ [][(/\ NewOpMade
         /\ ops'[Len(ops')].promise # Null
         /\ promises # <<>>
         /\ promises[Len(promises)].state = "rejected")
          => /\ Len(promises') = Len(promises) + 1
             /\ ops'[Len(ops')].promise = Len(promises')
             /\ DatabasePromise' = Len(promises')]_vars

\* C9 witness: an operation saw the open fail and a later one waits on a
\* new open.
OperationRetriesAfterFailedOpen ==
  \E o1, o2 \in DOMAIN ops :
    /\ o1 < o2
    /\ ops[o1].err = "OpenFailure"
    /\ Performed(o2)
    /\ ops[o2].promise > ops[o1].promise
    /\ DatabasePromise = ops[o2].promise

\* C10: an operation whose open failed never has a transaction or a request,
\* and once its reaction has run it is rejected with the open failure.
OpenFailureRejectsWaiters ==
  \A o \in DOMAIN ops :
    (Performed(o) /\ promises[ops[o].promise].state = "rejected")
      => /\ ops[o].txn = "none"
         /\ ops[o].req = "none"
         /\ \/ ops[o].st = "rejected" /\ ops[o].err = "OpenFailure"
            \/ ops[o].st = "waiting" /\ Queued(OpJob(o))

\* C10 witness: two operations that shared the failed open are both rejected
\* with the open failure.
TwoWaitersRejected ==
  \E o1, o2 \in DOMAIN ops :
    /\ o1 < o2
    /\ ops[o1].promise = ops[o2].promise
    /\ ops[o1].st = "rejected" /\ ops[o1].err = "OpenFailure"
    /\ ops[o2].st = "rejected" /\ ops[o2].err = "OpenFailure"

\* C11: for every key, valid or not, set(key, undefined) and delete(key) have
\* the same observable effect: whenever both have been called with the same
\* key, either both reached the engine (an open was requested and the call is
\* bound to its promise) or neither did, and a call that did not reach the
\* engine never has a transaction.
SetAbsentIsDelete ==
  \A o1 \in DOMAIN ops, o2 \in DOMAIN ops :
    (/\ ops[o1].kind = "set" /\ ops[o1].value = Undefined
     /\ ops[o2].kind = "delete"
     /\ ops[o1].key = ops[o2].key)
    => /\ Performed(o1) = Performed(o2)
       /\ (ops[o2].txn = "none" /\ ops[o2].st = "rejected"
             /\ ops[o2].err = "DataError")
           => ops[o1].txn = "none"

\* C12: for set and delete the returned promise is fulfilled, with undefined,
\* exactly when the call's readwrite transaction has ended in complete, and is
\* rejected with the transaction's error when it has ended in error or abort.
WriteFutureFollowsTransaction ==
  \A o \in DOMAIN ops :
    IsWrite(ops[o]) =>
      /\ (ops[o].st = "fulfilled") <=> (ops[o].txn = "complete")
      /\ ops[o].st = "fulfilled" => ops[o].val = Undefined
      /\ ops[o].txn \in {"error", "abort"} =>
           ops[o].st = "rejected" /\ ops[o].err = "TransactionError"

\* C13: a get whose transaction has ended in error or abort is rejected: it is
\* never left fulfilled or pending.
GetRejectedWhenTransactionFails ==
  \A o \in DOMAIN ops :
    (ops[o].kind = "get" /\ ops[o].txn \in {"error", "abort"})
      => ops[o].st = "rejected"

\* the step in which the request of get number o succeeds
GetReads(o) ==
  /\ o \in DOMAIN ops
  /\ ops[o].kind = "get"
  /\ ops[o].req = "pending"
  /\ ops'[o].req = "success"

\* the other writes to the key of write w that have fulfilled
FulfilledWritesBeside(w) ==
  {x \in DOMAIN ops \ {w} : /\ IsWrite(ops[x])
                            /\ ops[x].key = ops[w].key
                            /\ ops[x].st = "fulfilled"}

\* C14: round trip.  With no clear called, when a get reads its key after
\* set(k, v), v not undefined, has fulfilled and no other set or delete of k
\* has, the get fulfils with v; when it reads a key for which no set or
\* delete has fulfilled, it fulfils with undefined.
RoundTrip ==
  [][\A o \in DOMAIN ops :
       GetReads(o) /\ clears = <<>> =>
         /\ ops'[o].st = "fulfilled"
         /\ \A w \in DOMAIN ops :
              (/\ ops[w].kind = "set" /\ ops[w].key = ops[o].key
               /\ ops[w].value # Undefined /\ ops[w].st = "fulfilled"
               /\ FulfilledWritesBeside(w) = {})
              => ops'[o].val = ops[w].value
         /\ (\A w \in DOMAIN ops :
               IsWrite(ops[w]) /\ ops[w].key = ops[o].key
                 => ops[w].st # "fulfilled")
            => ops'[o].val = Undefined]_vars

\* C14 witness: a get issued after a fulfilled set of the same key has
\* fulfilled with the value that was set.
GetReturnedWhatWasSet ==
  /\ clears = <<>>
  /\ Len(ops) = 2
  /\ ops[1].kind = "set" /\ ops[1].value = "v" /\ ops[1].st = "fulfilled"
  /\ ops[2].kind = "get" /\ ops[2].key = ops[1].key
  /\ ops[2].st = "fulfilled" /\ ops[2].val = "v"

\* the fulfilled sets and deletes of the key of operation o that were called
\* after the clear of SerialSpec and before o
WritesSinceClear(o) ==
  {w \in (ClearAfter + 1)..(o - 1) : /\ IsWrite(ops[w])
                                     /\ ops[w].key = ops[o].key
                                     /\ ops[w].st = "fulfilled"}

Latest(S) == CHOOSE w \in S : \A x \in S : x <= w

\* C15: in a program that awaits every call, once the clear has fulfilled a
\* get of a key set before the clear fulfils with undefined, and after a
\* later set(k, v) a get of k fulfils with v again: a get called after the
\* fulfilled clear returns what the latest set or delete called since the
\* clear has left, and undefined if there is none.
ClearedThenUsable ==
  \A o \in DOMAIN ops :
    (/\ ops[o].kind = "get" /\ ops[o].st = "fulfilled"
     /\ o > ClearAfter
     /\ clears # <<>> /\ clears[1].st = "fulfilled")
    => ops[o].val = IF WritesSinceClear(o) = {}
                      THEN Undefined
                      ELSE ops[Latest(WritesSinceClear(o))].value

\* C15 witness: set, clear, get (undefined), set, get (the value again).
ReadAbsentThenSetAgain ==
  /\ Len(ops) = 4 /\ Len(clears) = 1 /\ ClearAfter = 1
  /\ clears[1].st = "fulfilled"
  /\ \A o \in 1..4 : ops[o].st = "fulfilled"
  /\ ops[1].kind = "set" /\ ops[3].kind = "set"
  /\ ops[2].kind = "get" /\ ops[2].val = Undefined
  /\ ops[4].kind = "get" /\ ops[4].val = "v"

OpSettled(o) == o \in DOMAIN ops /\ ops[o].st \in {"fulfilled", "rejected"}
ClearIsSettled(c) == c \in DOMAIN clears /\ clears[c].st # "pending"

\* C16: every get, set and delete that is called eventually settles, and so
\* does every clear; a settled call keeps its outcome (it settles once).
EveryCallSettles ==
  /\ \A o \in 1..DataMaxOps : (o \in DOMAIN ops) ~> OpSettled(o)
  /\ \A c \in 1..DataMaxClears : (c \in DOMAIN clears) ~> ClearIsSettled(c)
  /\ [][/\ \A o \in DOMAIN ops :
             OpSettled(o) => /\ ops'[o].st = ops[o].st
                             /\ ops'[o].err = ops[o].err
                             /\ ops'[o].val = ops[o].val
        /\ \A c \in DOMAIN clears :
             ClearIsSettled(c) => /\ clears'[c].st = clears[c].st
                                  /\ clears'[c].err = clears[c].err
                                  /\ clears'[c].val = clears[c].val]_vars

\* C16 witness: a set whose transaction aborted, a get and a clear have all
\* settled.
AbortedSetAndClearSettled ==
  /\ \E o \in DOMAIN ops :
       ops[o].kind = "set" /\ ops[o].txn = "abort" /\ ops[o].st = "rejected"
  /\ \E o \in DOMAIN ops : ops[o].kind = "get" /\ OpSettled(o)
  /\ \E c \in DOMAIN clears : ClearIsSettled(c)

\* C17: at the moment the deleteDatabase request of a clear fails, the promise
\* of the clear is rejected with that failure and the handle cache is absent.
CacheAbsentWhenDestroyFails ==
  [][\A c \in DOMAIN clears :
       clears[c].destroy = "pending" /\ clears'[c].destroy = "failed"
         => /\ clears'[c].st = "rejected"
            /\ clears'[c].err = "DeleteFailure"
            /\ DatabasePromise' = Null]_vars

\* C18: a set with a value that cannot be serialized fails, and no engine
\* transaction ever exists for it: the failure comes before the transaction
\* would be created.
UnserializableFailsBeforeTransaction ==
  \A o \in DOMAIN ops :
    (ops[o].kind = "set" /\ ops[o].value \in Unserializable)
      => /\ ops[o].txn = "none"
         /\ ops[o].st # "fulfilled"
         /\ ops[o].err \in {"none", "DataCloneError", "OpenFailure"}

\* C19: every access of backingStore returns the same value, the object
\* {database: the area's database name, store: "store", version: 1}, after
\* any sequence of get, set, delete and clear.
DescriptorNamesTheDatabase ==
  BackingStoreObject # <<>> =>
    BackingStoreObject =
      <<[database |-> DatabaseName, store |-> "store", version |-> 1]>>

\* C20: when the handler of a clear runs and sets the cache to absent, the
\* cache holds the promise this clear observed when it was called, or is
\* absent already: the handler never discards a newer promise.
ClearDiscardsOnlyObserved ==
  [][\A c \in DOMAIN clears :
       clears[c].destroy = "none" /\ clears'[c].destroy = "pending"
         => DatabasePromise \in {Null, clears[c].observed}]_vars
====
